---- MODULE Spec2Model ----
(***************************************************************************)
(* Model of the vector-store router of leapfrog-api                        *)
(* (src/vectordb/vector_stores.py): set_rag_context, the LLamaIndex        *)
(* router (process_query, vectorize_docs) and the two backends Weaviate    *)
(* and ChromaDB.  One request runs at a time; pc is the position of the    *)
(* running request inside the router.  The third-party calls (index        *)
(* construction, persistence, similarity query) are opaque collaborators:  *)
(* each either returns or raises, and an ingestion writes the document     *)
(* batch into the named index of its backend.                              *)
(***************************************************************************)
EXTENDS Naturals, Sequences, FiniteSets

VARIABLES
    model_config,            \* get_model_config(): rag.vector_stores, rag.llm.hub, embed hub
    store,                   \* store[b][name]: batches held by index `name` of backend b
    global_service_context,  \* what set_global_service_context installed last
    op,                      \* the router entry point that is running
    pc,                      \* position of the running request
    cur,                     \* which of the router's two `if` blocks is next
    prompt, docs, vdbs,      \* arguments / locals of the running request
    vdbs_arg,                \* the vdbs argument the caller passed to vectorize_docs
    vdbs_processed, responses,
    clock,                   \* now(), relative to the start of the request
    result,                  \* what the request returned to its caller
    calls,                   \* history: backend entry points invoked by this request, in order
    inflight,                \* history: backend calls started and not yet finished
    completed,               \* history: backends whose call returned without raising
    failed,                  \* history: callees of this request that raised
    ctx_installs,            \* history: set_global_service_context calls of this request
    answers,                 \* history: the record each backend's process_query returned
    reads,                   \* history: <<backend, index name>> opened for reading
    lastVec,                 \* history: the last router vectorize request that returned
    direct                   \* history: the last backend vectorize_docs call made directly

vars == <<model_config, store, global_service_context, op, pc, cur, prompt, docs,
          vdbs, vdbs_arg, vdbs_processed, responses, clock, result, calls, inflight,
          completed, failed, ctx_installs, answers, reads, lastVec, direct>>

-----------------------------------------------------------------------------
(* Bounds and input sets *)

MaxLen == 2      \* longest backend list (configuration or vdbs argument)
MaxTick == 1     \* longest duration of one backend call, in clock ticks

Backends == {"weaviate", "chromadb"}
Ids == Backends \cup {"pinecone"}          \* "pinecone": an identifier the router does not know
Hubs == {"huggingface", "openai", "other"} \* "other": any hub value the code does not name
Prompts == {"q1", "q2"}
Docs == {"batch1"}
None == "None"
NoDocs == "nodocs"

LFAI_INDEX_NAME == "lfai_index"
IndexNames == {LFAI_INDEX_NAME, "alt_index"}

VdbLists == UNION {[1..n -> Ids] : n \in 0..MaxLen}

-----------------------------------------------------------------------------
(* Helpers *)

SeqToSet(s) == {s[i] : i \in 1..Len(s)}

Count(s, x) == Cardinality({i \in 1..Len(s) : s[i] = x})

NoDup(s) == \A i, j \in 1..Len(s) : s[i] = s[j] => i = j

NoResult == [kind |-> "none"]
NoAnswers == [b \in Backends |-> [vector_store |-> None]]
NoVec == [valid |-> FALSE]
NoDirect == [valid |-> FALSE]

-----------------------------------------------------------------------------
(* set_rag_context *)

ResolveLlm(hub) ==
    IF hub = "huggingface" THEN "HuggingFaceLLM"
    ELSE IF hub = "openai" THEN "OpenAI"
    ELSE None

\* llm_model_key is assigned in the two named branches only
LlmModelKey(hub) ==
    IF hub = "huggingface" THEN "model_name"
    ELSE IF hub = "openai" THEN "model"
    ELSE "unbound"

ResolveEmbedModel(hub) ==
    IF hub = "huggingface" THEN "HuggingFaceEmbedding"
    ELSE IF hub = "openai" THEN "OpenAIEmbedding"
    ELSE "local"

ServiceContext(cfg) ==
    [llm |-> ResolveLlm(cfg.llm_hub), embed_model |-> ResolveEmbedModel(cfg.embed_hub)]

\* line 58 reads llm_model_key: UnboundLocalError when no branch assigned it
SetRagContextRaises(cfg) == LlmModelKey(cfg.llm_hub) = "unbound"

-----------------------------------------------------------------------------
(* The router's control structure *)

\* variant: the chromadb block written before the weaviate block
RouterOrderSwapped == <<"chromadb", "weaviate">>

\* the order of the two `if` blocks in process_query and vectorize_docs
RouterOrder == <<"weaviate", "chromadb">>

\* variant: only the first entry of the list is looked at
InListFirst(x, s) == Len(s) > 0 /\ s[1] = x

\* variant: any non-empty list enables every backend
InListAny(x, s) == Len(s) > 0

\* Python `x in vdbs` on a list
InList(x, s) == \E i \in 1..Len(s) : s[i] = x

\* the list process_query reads (line 73)
QueryVdbs(cfg) == cfg.vector_stores

\* variant: vectorize_docs reading the configuration instead of its parameter
VectorizeVdbsFromConfig(cfg, arg) == cfg.vector_stores

\* the list vectorize_docs works from: its own parameter (line 92)
VectorizeVdbs(cfg, arg) == arg

\* variant: the append placed before the backend call
ProcessedAlways(outcome, p, b) == Append(p, b)

\* vdbs_processed.append happens on the line after the backend call, so only
\* when the call returned
ProcessedAfter(outcome, p, b) == IF outcome = "ok" THEN Append(p, b) ELSE p

\* variant: responses.insert(0, response)
PrependResponse(rs, r) == <<r>> \o rs

\* responses.append(response)
AppendResponse(rs, r) == Append(rs, r)

\* variant: the backend call wrapped in try/except with the failure dropped
PcAfterRaiseSwallowed == "check"

\* an exception raised by a callee is not caught anywhere in the router
PcAfterRaise == "raised"

\* variant: the backend call submitted without waiting for it
PcAfterCallStartNoWait == "check"

\* after a backend call is started the router waits for it
PcAfterCallStart == "call"

-----------------------------------------------------------------------------
(* The backends *)

\* index_name = LFAI_INDEX_NAME if index_name is None else index_name
ResolveIndexName(index_name) ==
    IF index_name = None THEN LFAI_INDEX_NAME ELSE index_name

\* variant: ChromaDB.process_query opening another collection
QueryIndexNameOther(b) == IF b = "chromadb" THEN "alt_index" ELSE LFAI_INDEX_NAME

\* the index name each backend's process_query opens
QueryIndexName(b) == LFAI_INDEX_NAME

\* BaseVectorStore.query_index: the answer is a function of the index and the query
query_index(index, query) == [query |-> query, index |-> index]

\* Weaviate.process_query / ChromaDB.process_query
Backend_process_query(b, p, st, elapsed) ==
    [vector_store |-> b,
     response |-> query_index(st[b][QueryIndexName(b)], p),
     elapsed |-> elapsed]

\* Weaviate.vectorize_docs / ChromaDB.vectorize_docs: index_from_docs writes the
\* batch into the named index, persist_index follows.  outcome "raise_early":
\* the call fails before anything was written; "raise_late": it fails after.
Backend_vectorize_docs(st, b, d, index_name, outcome) ==
    IF outcome = "raise_early" THEN st
    ELSE [st EXCEPT ![b][ResolveIndexName(index_name)] = @ \cup {d}]

VectorizeOutcomes == {"ok", "raise_early", "raise_late"}

-----------------------------------------------------------------------------
(* Init *)

Init ==
    /\ model_config \in [vector_stores : VdbLists, llm_hub : Hubs, embed_hub : Hubs]
    /\ store = [b \in Backends |-> [n \in IndexNames |-> {}]]
    /\ global_service_context = [llm |-> "unset", embed_model |-> "unset"]
    /\ op = "none"
    /\ pc = "idle"
    /\ cur = 1
    /\ prompt = None
    /\ docs = NoDocs
    /\ vdbs = <<>>
    /\ vdbs_arg = <<>>
    /\ vdbs_processed = <<>>
    /\ responses = <<>>
    /\ clock = 0
    /\ result = NoResult
    /\ calls = <<>>
    /\ inflight = {}
    /\ completed = {}
    /\ failed = {}
    /\ ctx_installs = 0
    /\ answers = NoAnswers
    /\ reads = {}
    /\ lastVec = NoVec
    /\ direct = NoDirect

Idle == pc \in {"idle", "done", "raised"}

\* the locals and per-request histories of a fresh request
FreshRequest ==
    /\ cur' = 1
    /\ vdbs_processed' = <<>>
    /\ responses' = <<>>
    /\ clock' = 0
    /\ result' = NoResult
    /\ calls' = <<>>
    /\ inflight' = {}
    /\ completed' = {}
    /\ failed' = {}
    /\ ctx_installs' = 0
    /\ answers' = NoAnswers
    /\ reads' = {}

-----------------------------------------------------------------------------
(* LLamaIndex.process_query / LLamaIndex.vectorize_docs: entry *)

process_query_start(p) ==
    /\ Idle
    /\ op' = "query"
    /\ pc' = "rag"
    /\ prompt' = p
    /\ docs' = NoDocs
    /\ vdbs' = <<>>
    /\ vdbs_arg' = <<>>
    /\ FreshRequest
    /\ direct' = NoDirect
    /\ UNCHANGED <<model_config, store, global_service_context, lastVec>>

vectorize_docs_start(d, v) ==
    /\ Idle
    /\ op' = "vectorize"
    /\ pc' = "rag"
    /\ prompt' = None
    /\ docs' = d
    /\ vdbs' = <<>>
    /\ vdbs_arg' = v
    /\ FreshRequest
    /\ direct' = NoDirect
    /\ lastVec' = NoVec
    /\ UNCHANGED <<model_config, store, global_service_context>>

\* set_rag_context() as called on the first line of both entry points, then
\* the initialisation of the locals (start, vdbs_processed, responses, vdbs)
set_rag_context ==
    /\ pc = "rag"
    /\ global_service_context' = ServiceContext(model_config)
    /\ ctx_installs' = ctx_installs + 1
    /\ IF SetRagContextRaises(model_config)
       THEN /\ pc' = "raised"
            /\ failed' = failed \cup {"set_rag_context"}
            /\ vdbs' = vdbs
       ELSE /\ pc' = "check"
            /\ failed' = failed
            /\ vdbs' = IF op = "query" THEN QueryVdbs(model_config)
                       ELSE VectorizeVdbs(model_config, vdbs_arg)
    /\ UNCHANGED <<vdbs_arg, model_config, store, op, cur, prompt, docs, vdbs_processed,
                   responses, clock, result, calls, inflight, completed,
                   answers, reads, lastVec, direct>>

-----------------------------------------------------------------------------
(* The two `if '<backend>' in vdbs:` blocks *)

\* the condition is false: fall through to the next block
backend_skip ==
    /\ pc = "check"
    /\ cur <= Len(RouterOrder)
    /\ ~InList(RouterOrder[cur], vdbs)
    /\ cur' = cur + 1
    /\ UNCHANGED <<vdbs_arg, model_config, store, global_service_context, op, pc, prompt,
                   docs, vdbs, vdbs_processed, responses, clock, result, calls,
                   inflight, completed, failed, ctx_installs, answers, reads,
                   lastVec, direct>>

\* the condition is true: the backend's entry point is entered
backend_call ==
    /\ pc = "check"
    /\ cur <= Len(RouterOrder)
    /\ InList(RouterOrder[cur], vdbs)
    /\ calls' = Append(calls, RouterOrder[cur])
    /\ inflight' = inflight \cup {RouterOrder[cur]}
    /\ pc' = PcAfterCallStart
    /\ UNCHANGED <<vdbs_arg, model_config, store, global_service_context, op, cur, prompt,
                   docs, vdbs, vdbs_processed, responses, clock, result,
                   completed, failed, ctx_installs, answers, reads, lastVec,
                   direct>>

\* <Backend>.process_query(prompt) returns after d ticks
query_return(d) ==
    /\ pc = "call"
    /\ op = "query"
    /\ LET b == RouterOrder[cur]
           r == Backend_process_query(b, prompt, store, d)
       IN /\ answers' = [answers EXCEPT ![b] = r]
          /\ reads' = reads \cup {<<b, QueryIndexName(b)>>}
          /\ vdbs_processed' = ProcessedAfter("ok", vdbs_processed, b)
          /\ responses' = AppendResponse(responses, r)
          /\ completed' = completed \cup {b}
          /\ inflight' = inflight \ {b}
    /\ clock' = clock + d
    /\ cur' = cur + 1
    /\ pc' = "check"
    /\ UNCHANGED <<vdbs_arg, model_config, store, global_service_context, op, prompt, docs,
                   vdbs, result, calls, failed, ctx_installs, lastVec, direct>>

\* <Backend>.process_query(prompt) raises (client or library failure)
query_raise ==
    /\ pc = "call"
    /\ op = "query"
    /\ LET b == RouterOrder[cur]
       IN /\ vdbs_processed' = ProcessedAfter("raise", vdbs_processed, b)
          /\ failed' = failed \cup {b}
          /\ inflight' = inflight \ {b}
    /\ pc' = PcAfterRaise
    /\ UNCHANGED <<vdbs_arg, model_config, store, global_service_context, op, cur, prompt,
                   docs, vdbs, responses, clock, result, calls, completed,
                   ctx_installs, answers, reads, lastVec, direct>>

\* <Backend>.vectorize_docs(docs) returns or raises
vectorize_finish(outcome) ==
    /\ pc = "call"
    /\ op = "vectorize"
    /\ LET b == RouterOrder[cur]
       IN /\ store' = Backend_vectorize_docs(store, b, docs, None, outcome)
          /\ vdbs_processed' = ProcessedAfter(outcome, vdbs_processed, b)
          /\ inflight' = inflight \ {b}
          /\ IF outcome = "ok"
             THEN /\ completed' = completed \cup {b}
                  /\ failed' = failed
                  /\ cur' = cur + 1
                  /\ pc' = "check"
             ELSE /\ completed' = completed
                  /\ failed' = failed \cup {b}
                  /\ cur' = cur
                  /\ pc' = PcAfterRaise
    /\ UNCHANGED <<vdbs_arg, model_config, global_service_context, op, prompt, docs, vdbs,
                   responses, clock, result, calls, ctx_installs, answers,
                   reads, lastVec, direct>>

\* the return statement of process_query
process_query_return ==
    /\ pc = "check"
    /\ cur > Len(RouterOrder)
    /\ op = "query"
    /\ result' = [kind |-> "query",
                  value |-> [prompt |-> prompt,
                             vdbs_processed |-> vdbs_processed,
                             responses |-> responses,
                             elapsed |-> clock]]
    /\ pc' = "done"
    /\ UNCHANGED <<vdbs_arg, model_config, store, global_service_context, op, cur, prompt,
                   docs, vdbs, vdbs_processed, responses, clock, calls,
                   inflight, completed, failed, ctx_installs, answers, reads,
                   lastVec, direct>>

\* the return statement of vectorize_docs
vectorize_docs_return ==
    /\ pc = "check"
    /\ cur > Len(RouterOrder)
    /\ op = "vectorize"
    /\ result' = [kind |-> "vectorize", value |-> vdbs_processed]
    /\ lastVec' = [valid |-> TRUE, docs |-> docs, vdbs_processed |-> vdbs_processed]
    /\ pc' = "done"
    /\ UNCHANGED <<vdbs_arg, model_config, store, global_service_context, op, cur, prompt,
                   docs, vdbs, vdbs_processed, responses, clock, calls,
                   inflight, completed, failed, ctx_installs, answers, reads,
                   direct>>

-----------------------------------------------------------------------------
(* A backend's vectorize_docs called directly, with an index_name argument *)

backend_vectorize_docs_direct(b, d, index_name, outcome) ==
    /\ Idle
    /\ store' = Backend_vectorize_docs(store, b, d, index_name, outcome)
    /\ direct' = [valid |-> TRUE, backend |-> b, docs |-> d, index_name |-> index_name,
                  wrote |-> outcome # "raise_early"]
    /\ op' = "none"
    /\ pc' = "idle"
    /\ prompt' = None
    /\ docs' = NoDocs
    /\ vdbs' = <<>>
    /\ vdbs_arg' = <<>>
    /\ FreshRequest
    /\ UNCHANGED <<model_config, global_service_context, lastVec>>

-----------------------------------------------------------------------------

Next ==
    \/ \E p \in Prompts : process_query_start(p)
    \/ \E d \in Docs, v \in VdbLists : vectorize_docs_start(d, v)
    \/ set_rag_context
    \/ backend_skip
    \/ backend_call
    \/ \E d \in 0..MaxTick : query_return(d)
    \/ query_raise
    \/ \E o \in VectorizeOutcomes : vectorize_finish(o)
    \/ process_query_return
    \/ vectorize_docs_return
    \/ \E b \in Backends, d \in Docs, n \in IndexNames \cup {None},
          o \in VectorizeOutcomes : backend_vectorize_docs_direct(b, d, n, o)

Spec == Init /\ [][Next]_vars

TypeOK ==
    /\ pc \in {"idle", "rag", "check", "call", "done", "raised"}
    /\ op \in {"none", "query", "vectorize"}
    /\ cur \in 1..(Len(RouterOrder) + 1)
    /\ inflight \subseteq Backends

-----------------------------------------------------------------------------
(* Properties *)

\* the backend list the running request was given: the configuration for a
\* query, the caller's vdbs argument for a vectorize request
ReqList == IF op = "query" THEN model_config.vector_stores ELSE vdbs_arg

Returned == pc = "done"

DistinctKnown(L) == NoDup(L) /\ SeqToSet(L) \subseteq Backends

\* C1: when the backend list is a sequence of distinct identifiers drawn from
\* {weaviate, chromadb} (the empty sequence included), a request that returns
\* has invoked each listed backend exactly once and no unlisted backend, and
\* the returned lists (responses and vdbs_processed of process_query, the
\* list returned by vectorize_docs) have as many entries as the backend list.
C1_ExactlyTheEnabledBackends ==
    (Returned /\ DistinctKnown(ReqList)) =>
        /\ \A b \in Backends :
              Count(calls, b) = IF b \in SeqToSet(ReqList) THEN 1 ELSE 0
        /\ op = "query" =>
              /\ result.kind = "query"
              /\ Len(result.value.responses) = Len(ReqList)
              /\ Len(result.value.vdbs_processed) = Len(ReqList)
        /\ op = "vectorize" =>
              /\ result.kind = "vectorize"
              /\ Len(result.value) = Len(ReqList)

C1_Witness ==
    /\ Returned
    /\ op = "vectorize"
    /\ vdbs_arg = <<"chromadb", "weaviate">>
    /\ Len(result.value) = 2
    /\ Count(calls, "weaviate") = 1
    /\ Count(calls, "chromadb") = 1

\* C2 as stated: for a list L of distinct known backends, the i-th backend
\* invoked is L[i] and the i-th entry of vdbs_processed, of responses and of
\* the list vectorize_docs returns belongs to L[i].
C2_ConfiguredOrder ==
    (Returned /\ DistinctKnown(ReqList)) =>
        /\ calls = ReqList
        /\ vdbs_processed = ReqList
        /\ op = "query" =>
              \A i \in 1..Len(responses) : responses[i].vector_store = ReqList[i]

\* C2 amended: the backends are invoked in the fixed order weaviate, then
\* chromadb, whatever the order of the backend list; the results come back in
\* the order of invocation (the i-th entry of vdbs_processed, of responses and
\* of the list vectorize_docs returns belongs to the i-th backend invoked).
C2_FixedOrder ==
    /\ \A i, j \in 1..Len(calls) :
          (calls[i] = "chromadb" /\ calls[j] = "weaviate") => j < i
    /\ Returned =>
          /\ vdbs_processed = calls
          /\ op = "query" =>
                /\ result.value.vdbs_processed = calls
                /\ Len(result.value.responses) = Len(calls)
                /\ \A i \in 1..Len(calls) :
                      result.value.responses[i].vector_store = calls[i]
          /\ op = "vectorize" => result.value = calls

C2_Witness ==
    /\ Returned
    /\ op = "query"
    /\ model_config.vector_stores = <<"chromadb", "weaviate">>
    /\ calls = <<"weaviate", "chromadb">>
    /\ result.value.vdbs_processed = <<"weaviate", "chromadb">>

\* C3: during vectorize_docs a backend identifier is in vdbs_processed only if
\* that backend's vectorize_docs call has already returned without raising
\* (so the batch is in the backend's LFAI_INDEX_NAME index), and on normal
\* return the returned list is exactly the set of backends whose ingestion
\* call completed during this request.
C3_ProcessedMeansCompleted ==
    op = "vectorize" =>
        /\ \A i \in 1..Len(vdbs_processed) :
              /\ vdbs_processed[i] \in completed
              /\ vdbs_processed[i] \notin failed
              /\ vdbs_processed[i] \notin inflight
        /\ \A b \in completed : docs \in store[b][LFAI_INDEX_NAME]
        /\ Returned =>
              /\ result.kind = "vectorize"
              /\ SeqToSet(result.value) = completed
              /\ NoDup(result.value)

C3_Witness ==
    /\ op = "vectorize"
    /\ pc = "raised"
    /\ completed = {"weaviate"}
    /\ failed = {"chromadb"}
    /\ vdbs_processed = <<"weaviate">>
    /\ docs \in store["chromadb"][LFAI_INDEX_NAME]

\* C4: on every normal return of process_query(prompt) the result carries the
\* input prompt unchanged, responses and vdbs_processed have the same length,
\* responses[i] is the record the backend named vdbs_processed[i] returned
\* (same vector_store, response and elapsed), and no backend appears twice.
C4_ResultAggregatesConsistently ==
    (Returned /\ op = "query") =>
        LET r == result.value
        IN /\ result.kind = "query"
           /\ r.prompt = prompt
           /\ Len(r.responses) = Len(r.vdbs_processed)
           /\ \A i \in 1..Len(r.vdbs_processed) :
                 /\ r.vdbs_processed[i] \in Backends
                 /\ r.responses[i].vector_store = r.vdbs_processed[i]
                 /\ r.responses[i] = answers[r.vdbs_processed[i]]
                 /\ r.responses[i].response.query = prompt
           /\ NoDup(r.vdbs_processed)

C4_Witness ==
    /\ Returned
    /\ op = "query"
    /\ prompt = "q2"
    /\ Len(result.value.responses) = 2
    /\ result.value.responses[1].elapsed # result.value.responses[2].elapsed
    /\ result.value.elapsed = 1

\* C5: when a backend call (or set_rag_context) raises, the failure reaches
\* the caller: the request ends without returning anything, the failing
\* backend was invoked once and is the last backend invoked, and for a
\* vectorize request the batches ingested by the backends that completed
\* earlier are still in their indexes.
C5_FailurePropagates ==
    failed # {} =>
        /\ pc = "raised"
        /\ result.kind = "none"
        /\ inflight = {}
        /\ Cardinality(failed) = 1
        /\ \A b \in failed \cap Backends :
              /\ Count(calls, b) = 1
              /\ calls[Len(calls)] = b
              /\ b \notin SeqToSet(vdbs_processed)
        /\ op = "vectorize" =>
              \A b \in completed : docs \in store[b][LFAI_INDEX_NAME]

C5_Witness ==
    /\ op = "vectorize"
    /\ pc = "raised"
    /\ failed = {"chromadb"}
    /\ completed = {"weaviate"}
    /\ calls = <<"weaviate", "chromadb">>
    /\ docs \in store["weaviate"][LFAI_INDEX_NAME]
    /\ docs \notin store["chromadb"][LFAI_INDEX_NAME]

\* C6 as stated: a vectorize request invokes the ingestion entry point of
\* exactly the configured enabled backends, so that a query that follows a
\* vectorize request consults only backends that ingested the batch.
C6_OneConfiguredSet ==
    /\ (Returned /\ op = "vectorize") =>
          SeqToSet(calls) = SeqToSet(model_config.vector_stores) \cap Backends
    /\ (Returned /\ op = "query" /\ lastVec.valid) =>
          \A b \in SeqToSet(result.value.vdbs_processed) :
              lastVec.docs \in store[b][LFAI_INDEX_NAME]

\* C6 amended: a vectorize request invokes the ingestion entry point of
\* exactly the known backends named in the vdbs argument its caller passed
\* (the configuration is read by process_query only); in a sequence
\* vectorize_docs(docs, vdbs) followed by process_query(prompt), the query
\* consults the configured backends, and every backend it consults that was
\* named in vdbs has ingested the batch and answers from an index holding it.
C6_ArgumentDecidesIngestion ==
    /\ (Returned /\ op = "vectorize") =>
          /\ SeqToSet(calls) = SeqToSet(vdbs_arg) \cap Backends
          /\ lastVec.valid
          /\ SeqToSet(lastVec.vdbs_processed) = SeqToSet(vdbs_arg) \cap Backends
    /\ (Returned /\ op = "query") =>
          /\ SeqToSet(calls) = SeqToSet(model_config.vector_stores) \cap Backends
          /\ lastVec.valid =>
                \A b \in SeqToSet(result.value.vdbs_processed)
                           \cap SeqToSet(lastVec.vdbs_processed) :
                    /\ lastVec.docs \in store[b][LFAI_INDEX_NAME]
                    /\ lastVec.docs \in answers[b].response.index

C6_Witness ==
    /\ Returned
    /\ op = "query"
    /\ lastVec.valid
    /\ lastVec.vdbs_processed = <<"weaviate">>
    /\ result.value.vdbs_processed = <<"weaviate", "chromadb">>
    /\ lastVec.docs \in answers["weaviate"].response.index
    /\ answers["chromadb"].response.index = {}

\* C7: within one request at most one backend call is in progress, a backend
\* call is entered only while no other is in progress (every call entered
\* earlier has returned or raised), and the global service context has been
\* installed, once, before the first backend call is entered.
C7_StrictlySequential ==
    /\ Cardinality(inflight) <= 1
    /\ pc # "call" => inflight = {}
    /\ pc = "call" => inflight = {calls[Len(calls)]}
    /\ Len(calls) = Cardinality(completed) + Cardinality(failed \cap Backends)
                      + Cardinality(inflight)
    /\ calls # <<>> =>
          /\ ctx_installs = 1
          /\ "set_rag_context" \notin failed
          /\ global_service_context.llm # "unset"

C7_Witness ==
    /\ op = "query"
    /\ pc = "call"
    /\ completed = {"weaviate"}
    /\ inflight = {"chromadb"}
    /\ calls = <<"weaviate", "chromadb">>
    /\ ctx_installs = 1

\* C8: set_rag_context completes normally for every combination of hub
\* values: once it has run it has installed exactly one service context
\* (llm None / embed_model 'local' for hubs it does not name), it has not
\* raised, and the request goes on to the backend blocks.
C8_SetRagContextCompletes ==
    (op # "none" /\ pc # "rag") =>
        /\ ctx_installs = 1
        /\ global_service_context.llm =
              (IF model_config.llm_hub = "huggingface" THEN "HuggingFaceLLM"
               ELSE IF model_config.llm_hub = "openai" THEN "OpenAI" ELSE None)
        /\ global_service_context.embed_model =
              (IF model_config.embed_hub = "huggingface" THEN "HuggingFaceEmbedding"
               ELSE IF model_config.embed_hub = "openai" THEN "OpenAIEmbedding"
               ELSE "local")
        /\ "set_rag_context" \notin failed

\* C9: every index a query opens is the LFAI_INDEX_NAME index of the backend
\* asked, and the answer is computed from that index; a router ingestion
\* writes the LFAI_INDEX_NAME index of the backend called and nothing else; a
\* direct backend vectorize_docs call writes only the index it resolves
\* (LFAI_INDEX_NAME without index_name, the given name otherwise), so a batch
\* written under another name is in no index a query reads.
C9_Step ==
    /\ \A b \in Backends, n \in IndexNames :
          store'[b][n] # store[b][n] =>
              \/ /\ pc = "call"
                 /\ op = "vectorize"
                 /\ calls[Len(calls)] = b
                 /\ n = LFAI_INDEX_NAME
              \/ /\ Idle
                 /\ direct'.valid
                 /\ direct'.backend = b
                 /\ n = (IF direct'.index_name = None THEN LFAI_INDEX_NAME
                         ELSE direct'.index_name)
    /\ (Idle /\ direct'.valid /\ direct'.wrote) =>
          direct'.docs \in store'[direct'.backend]
                                 [IF direct'.index_name = None THEN LFAI_INDEX_NAME
                                  ELSE direct'.index_name]
    /\ op' = "vectorize" => \A b \in completed' : docs' \in store'[b][LFAI_INDEX_NAME]
    /\ reads' \subseteq {<<b, LFAI_INDEX_NAME>> : b \in Backends}
    /\ op' = "query" =>
          \A b \in completed' :
              /\ <<b, LFAI_INDEX_NAME>> \in reads'
              /\ answers'[b].response.index = store'[b][LFAI_INDEX_NAME]

C9_SameIndex == [][C9_Step]_vars

C9_Witness ==
    /\ Returned
    /\ op = "query"
    /\ completed = Backends
    /\ store["chromadb"]["alt_index"] # {}
    /\ store["chromadb"][LFAI_INDEX_NAME] = {}
    /\ store["weaviate"][LFAI_INDEX_NAME] # {}
    /\ <<"chromadb", LFAI_INDEX_NAME>> \in reads
    /\ answers["chromadb"].response.index = {}
    /\ answers["weaviate"].response.index # {}

\* C10: identifiers other than 'weaviate' and 'chromadb', and repeated
\* identifiers, are ignored: no backend is invoked that the list does not
\* name, none is invoked twice, the only callees that can raise are
\* set_rag_context and the backends invoked, vdbs_processed holds known
\* backends only, each at most once; with no known identifier in the list
\* nothing is invoked, nothing raises after set_rag_context, and the request
\* returns empty responses / an empty processed list.
C10_UnknownAndRepeatedIgnored ==
    /\ SeqToSet(calls) \subseteq SeqToSet(ReqList) \cap Backends
    /\ \A b \in Backends : Count(calls, b) <= 1
    /\ failed \subseteq {"set_rag_context"} \cup SeqToSet(calls)
    /\ SeqToSet(vdbs_processed) \subseteq Backends
    /\ NoDup(vdbs_processed)
    /\ (op # "none" /\ SeqToSet(ReqList) \cap Backends = {}) =>
          /\ calls = <<>>
          /\ failed \subseteq {"set_rag_context"}
          /\ pc = "raised" => SetRagContextRaises(model_config)
          /\ (Returned /\ op = "query") =>
                /\ result.value.responses = <<>>
                /\ result.value.vdbs_processed = <<>>
          /\ (Returned /\ op = "vectorize") => result.value = <<>>

C10_Witness ==
    /\ Returned
    /\ op = "vectorize"
    /\ vdbs_arg = <<"pinecone", "pinecone">>
    /\ result.kind = "vectorize"
    /\ result.value = <<>>
    /\ calls = <<>>

====
